---- MODULE Spec2Model ----
(***************************************************************************)
(* asc_desc.py of PySAR: projection of an ascending and a descending LOS   *)
(* displacement file onto a vertical and a horizontal component.           *)
(*                                                                         *)
(* Numbers.  Geographic coordinates, steps and LOS values are Python       *)
(* floats with integral values (X_FIRST = '3.0', X_STEP = '2.0', ...), so  *)
(* that every quotient the program rounds is an exact rational.  Angles    *)
(* are multiples of 30 degrees; their sines and cosines live in Q(sqrt 3). *)
(* A radian value <<deg, e>> is the double deg * float(pi) / 180 +         *)
(* e * 2^-58 / 180, rounded as the code's products and differences round.  *)
(* float(pi) is delta = 1.2246e-16 short of pi and a double carries a      *)
(* rounding error in units of eps = 2^-53, so np.sin and np.cos give a     *)
(* combination of delta and eps, not 0, where the sine or cosine of the    *)
(* angle is 0; such numbers are quotients of forms in delta and eps.       *)
(***************************************************************************)
EXTENDS Integers, Sequences, FiniteSets, TLC

VARIABLES
    pc,         \* position in main()
    argv,       \* the command line: [azimuth, file, outfile]
    disk,       \* the two input files: disk[k] = [atr, data]
    inps,       \* result of cmdLineParse()
    atr1, atr2, \* attribute dictionaries of the two inputs
    west, east, south, north,   \* the common area
    lon_step, lat_step,         \* steps of the first input
    width, length,              \* size of the common area in pixels
    u_los,      \* the 2 x (width*length) LOS stack, one sequence per row
    i,          \* loop index of the read loop (0-based, as in the code)
    boxes,      \* the pixel windows (x0,y0,x1,y1) handed to readfile.read
    heading,    \* heading angles, radians
    incidence,  \* incidence angles, radians
    A,          \* design matrix
    A_inv,      \* its pseudo-inverse
    u_v, u_h,   \* the two output grids, [shape, rows]
    atr,        \* attribute dictionary of the outputs
    written,    \* the calls made to writefile.write, in order
    events      \* the I/O and solve steps performed so far, in order

vars == <<pc, argv, disk, inps, atr1, atr2, west, east, south, north, lon_step,
          lat_step, width, length, u_los, i, boxes, heading, incidence, A,
          A_inv, u_v, u_h, atr, written, events>>

inputVars == <<argv, disk>>

aoiVars == <<west, east, south, north, lon_step, lat_step, width, length>>

loopVars == <<u_los, i, boxes, heading, incidence>>

outVars == <<A, A_inv, u_v, u_h, atr, written>>

(***************************************************************************)
(* Bounds of the input space                                               *)
(***************************************************************************)
MaxShift == 3       \* X_FIRST of an input ranges over 0..MaxShift
MaxDim == 2         \* WIDTH ranges over 1..MaxDim; rasters of SpecAngles are MaxDim x MaxDim

(***************************************************************************)
(* Integer helpers                                                         *)
(***************************************************************************)
Abs(x) == IF x < 0 THEN -x ELSE x

Sign(x) == IF x < 0 THEN -1 ELSE IF x > 0 THEN 1 ELSE 0

RECURSIVE GCD(_, _)
GCD(a, b) == IF b = 0 THEN Abs(a) ELSE GCD(b, a % Abs(b))

Max2(a, b) == IF a >= b THEN a ELSE b

Min2(a, b) == IF a <= b THEN a ELSE b

\* Python 2 round(n/d): nearest integer, halves away from zero (d # 0).
PyRound(n, d) ==
    LET nn == n * Sign(d)
        dd == Abs(d)
    IN  IF nn >= 0 THEN (2 * nn + dd) \div (2 * dd)
        ELSE -((2 * (-nn) + dd) \div (2 * dd))

\* numpy rint(n/d): nearest integer, halves to the even neighbour (d # 0).
Rint(n, d) ==
    LET nn == n * Sign(d)
        dd == Abs(d)
        q  == nn \div dd
        r  == nn - q * dd
    IN  IF 2 * r < dd THEN q
        ELSE IF 2 * r > dd THEN q + 1
        ELSE IF q % 2 = 0 THEN q ELSE q + 1

(***************************************************************************)
(* Strings of the attribute dictionaries: str(), float(), int()            *)
(***************************************************************************)
\* str(x) of an int
StrInt(n) == ToString(n)

\* str(x) of a float with an integral value: Python prints "3.0", "-2.0"
StrFloat(n) == ToString(n) \o ".0"

NumRange == (-500) .. 500

FloatTable == [s \in {StrFloat(n) : n \in NumRange} |->
                  CHOOSE n \in NumRange : StrFloat(n) = s]

IntTable == [s \in {StrInt(n) : n \in NumRange} |->
                CHOOSE n \in NumRange : StrInt(n) = s]

\* float(s) of a string written as by StrFloat
Float(s) == FloatTable[s]

\* int(s) of a string written as by StrInt
IntOf(s) == IntTable[s]

(***************************************************************************)
(* The field Q(sqrt 3): <<p, q, d>> is (p + q*sqrt(3))/d, d > 0, reduced   *)
(***************************************************************************)
FNorm(p, q, d) ==
    LET g == GCD(GCD(p, q), d)
        s == IF d < 0 THEN -1 ELSE 1
    IN  IF p = 0 /\ q = 0 THEN <<0, 0, 1>>
        ELSE <<(s * p) \div g, (s * q) \div g, (s * d) \div g>>

FInt(n) == <<n, 0, 1>>

FZero == FInt(0)

FOne == FInt(1)

FIsZero(x) == x[1] = 0 /\ x[2] = 0

FAdd(x, y) == FNorm(x[1] * y[3] + y[1] * x[3], x[2] * y[3] + y[2] * x[3], x[3] * y[3])

FNeg(x) == <<-x[1], -x[2], x[3]>>

FMul(x, y) == FNorm(x[1] * y[1] + 3 * x[2] * y[2], x[1] * y[2] + x[2] * y[1], x[3] * y[3])

\* 1/x for x # 0: (p - q*sqrt 3) * d / (p^2 - 3 q^2)
FInv(x) == FNorm(x[1] * x[3], -(x[2] * x[3]), x[1] * x[1] - 3 * x[2] * x[2])

(***************************************************************************)
(* Forms in the two small quantities of double arithmetic,                 *)
(*     delta = pi - float(pi) = 1.2246467991473532e-16                     *)
(*     eps   = 2^-53          = 1.1102230246251565e-16 :                   *)
(* the sequence <<c0, ..., cm>> over Q(sqrt 3) is the form of degree m     *)
(*     c0 delta^m + c1 delta^(m-1) eps + ... + cm eps^m.                   *)
(***************************************************************************)
PZero == <<FZero>>

POne == <<FOne>>

PIsZero(a) == \A k \in 1 .. Len(a) : FIsZero(a[k])

PScale(c, a) == [k \in 1 .. Len(a) |-> FMul(c, a[k])]

PNeg(a) == [k \in 1 .. Len(a) |-> FNeg(a[k])]

\* the sum of two forms of one degree
PAdd(a, b) == [k \in 1 .. Len(a) |-> FAdd(a[k], b[k])]

RECURSIVE PConv(_, _, _, _)
\* the sum of a[j] * b[k + 1 - j] over j >= j0
PConv(a, b, k, j0) ==
    IF j0 > Len(a) \/ j0 > k THEN FZero
    ELSE IF k + 1 - j0 > Len(b) THEN PConv(a, b, k, j0 + 1)
    ELSE FAdd(FMul(a[j0], b[k + 1 - j0]), PConv(a, b, k, j0 + 1))

PMul(a, b) ==
    IF Len(a) = 1 THEN PScale(a[1], b)
    ELSE IF Len(b) = 1 THEN PScale(b[1], a)
    ELSE [k \in 1 .. (Len(a) + Len(b) - 1) |-> PConv(a, b, k, 1)]

RECURSIVE Strip(_)
\* a form without its leading zero coefficients, that is without its factors eps
Strip(a) == IF a = <<>> THEN <<>> ELSE IF FIsZero(a[1]) THEN Strip(Tail(a)) ELSE a

\* the form a - c * b * delta^(Len(a) - Len(b)) without its first coefficient
PStep(a, b, c) ==
    [k \in 1 .. (Len(a) - 1) |->
        IF k + 1 <= Len(b) THEN FAdd(a[k + 1], FNeg(FMul(c, b[k + 1]))) ELSE a[k + 1]]

RECURSIVE PRem(_, _)
\* remainder of the division of a by b as polynomials in delta, b[1] # 0
PRem(a, b) ==
    IF Len(a) < Len(b) THEN a ELSE PRem(PStep(a, b, FMul(a[1], FInv(b[1]))), b)

RECURSIVE PQuo(_, _)
\* quotient of the division of a by b as polynomials in delta, b[1] # 0
PQuo(a, b) ==
    IF Len(a) < Len(b) THEN <<>>
    ELSE <<FMul(a[1], FInv(b[1]))>> \o PQuo(PStep(a, b, FMul(a[1], FInv(b[1]))), b)

RECURSIVE PGcd(_, _)
\* a greatest common divisor of a and b, a # 0 without leading zeros
PGcd(a, b) == IF b = <<>> THEN a ELSE PGcd(b, Strip(PRem(a, b)))

(***************************************************************************)
(* Floating-point numbers: <<n, d>> is the quotient n/d of two forms, in   *)
(* lowest terms, the first coefficient # 0 of d being 1.  Its order is the *)
(* degree of n less the degree of d: a number of order k is 1e-16 of a     *)
(* number of order k - 1, below the precision of a double, and a sum keeps *)
(* the term of the lower order, as the float sum does.  A number of order  *)
(* 0 stands for the double next to it.                                     *)
(***************************************************************************)
QZero == <<PZero, POne>>

Pad(k) == [j \in 1 .. k |-> FZero]

\* n/d for forms n # 0 and d # 0 that are not both of degree 0
Reduce(n, d) ==
    LET nu == Strip(n)
        du == Strip(d)
        zn == Len(n) - Len(nu)
        zd == Len(d) - Len(du)
        z  == Min2(zn, zd)
        g  == IF Len(nu) = 1 \/ Len(du) = 1 THEN POne ELSE PGcd(nu, du)
        nd == IF Len(g) = 1 THEN <<nu, du>> ELSE <<PQuo(nu, g), PQuo(du, g)>>
        c  == FInv(nd[2][1])
    IN  [k \in 1 .. 2 |-> Pad((IF k = 1 THEN zn ELSE zd) - z) \o PScale(c, nd[k])]

QNorm(n, d) ==
    IF PIsZero(n) THEN QZero
    ELSE IF Len(n) = 1 /\ Len(d) = 1 THEN <<<<FMul(n[1], FInv(d[1]))>>, POne>>
    ELSE Reduce(n, d)

QInt(n) == <<<<FInt(n)>>, POne>>

\* the number of order 0 that is the element c of Q(sqrt 3)
QConst(c) == <<<<c>>, POne>>

\* the number a * delta + b * eps, a and b in Q(sqrt 3)
QSmall(a, b) == QNorm(<<a, b>>, POne)

QIsZero(x) == PIsZero(x[1])

Order(x) == Len(x[1]) - Len(x[2])

\* x + y over the product of the two denominators
QCross(x, y) == QNorm(PAdd(PMul(x[1], y[2]), PMul(y[1], x[2])), PMul(x[2], y[2]))

QAdd(x, y) ==
    IF QIsZero(x) THEN y
    ELSE IF QIsZero(y) THEN x
    ELSE IF Order(x) < Order(y) THEN x
    ELSE IF Order(y) < Order(x) THEN y
    ELSE IF x[2] = y[2] THEN QNorm(PAdd(x[1], y[1]), x[2])
    ELSE QCross(x, y)

QNeg(x) == <<PNeg(x[1]), x[2]>>

QSub(x, y) == QAdd(x, QNeg(y))

QMul(x, y) == QNorm(PMul(x[1], y[1]), PMul(x[2], y[2]))

\* 1/x for x # 0
QInv(x) == QNorm(x[2], x[1])

\* 1000 times an element of Q(sqrt 3), to the integer below
FMilli(c) == (1000 * c[1] + 1732 * c[2]) \div c[3]

\* |x| > 1e-15 for a number x: decided by the order of x, and for a number
\* a * delta + b * eps of order 1 by its value in units of 1e-23
AboveRcond(x) ==
    IF QIsZero(x) THEN FALSE
    ELSE IF Order(x) # 1 THEN Order(x) < 1
    ELSE Len(x[1]) = 2
         /\ Abs(12246 * FMilli(x[1][1]) + 11102 * FMilli(x[1][2])) > 100000000

(***************************************************************************)
(* Angles: degrees -> radians, sin and cos.  A radian value <<deg, e>> is  *)
(* the double  deg * float(pi)/180 + e * 2^-58 / 180,  where deg is the    *)
(* angle in degrees, an integer.  In units of 2^-58 float(pi) is Pi58 and  *)
(* float(pi)/180., the factor of lines 76, 120 and 125, is Mc:             *)
(*     Pi58 = 905502432259640320,  Mc = 5030569068109113,                  *)
(* so that 180 * Mc = Pi58 + 20.  The rounding of a product or difference  *)
(* to the 53 bits of a double is decided by its lowest bits, for which     *)
(* Mc modulo 2^11 and Pi58 modulo 180 * 2^11 are enough.                   *)
(***************************************************************************)
McExcess == 20          \* 180 * Mc - Pi58

McLow == 1337           \* Mc % 2^11

PiLow == 240640         \* Pi58 % (180 * 2^11)

\* 2^k for k in 0 .. 11
Pow2(k) == <<1, 2, 4, 8, 16, 32, 64, 128, 256, 512, 1024, 2048>>[k + 1]

\* the bits a double of deg degrees has below 2^-58, the unit, beyond its 53:
\* b + 6 for a double in [2^b, 2^(b+1)); 1, 2, 4, 8, 15, 29, 58, 115, 230, 459
\* and 917 are the least numbers of degrees that are 2^-6, ... 2^4 radians
DropBits(deg) ==
    LET a == Abs(deg)
    IN  IF a < 15 THEN (IF a < 2 THEN 0 ELSE IF a < 4 THEN 1 ELSE IF a < 8 THEN 2 ELSE 3)
        ELSE IF a < 115 THEN (IF a < 29 THEN 4 ELSE IF a < 58 THEN 5 ELSE 6)
        ELSE IF a < 230 THEN 7
        ELSE IF a < 459 THEN 8
        ELSE IF a < 917 THEN 9
        ELSE 10

\* what rounding to a multiple of 2^s, halves to the even neighbour, adds to
\* an integer that is low modulo 2^(s+1)
RoundAdd(low, s) ==
    LET r == low % Pow2(s)
    IN  IF 2 * r < Pow2(s) THEN -r
        ELSE IF 2 * r > Pow2(s) THEN Pow2(s) - r
        ELSE IF low < Pow2(s) THEN -r ELSE Pow2(s) - r

\* deg * (np.pi/180.) for an integer deg below 2^5 radians, |deg| < 1834
Deg2Rad(deg) ==
    LET s == DropBits(deg)
        low == (Abs(deg) * McLow) % Pow2(s + 1)
    IN  <<deg, deg * McExcess + 180 * Sign(deg) * RoundAdd(low, s)>>

\* a - b of two radian values less than 1834 degrees apart
RadSub(a, b) ==
    LET deg == a[1] - b[1]
        e   == a[2] - b[2]
        s   == DropBits(deg)
        low == (((deg * PiLow + e) % (180 * Pow2(s + 1))) \div 180)
    IN  <<deg, e + 180 * RoundAdd(low, s)>>

\* the sine of the angle k * 30 degrees itself, k taken modulo 12
ExactSin == <<<<0, 0, 1>>, <<1, 0, 2>>, <<0, 1, 2>>, <<1, 0, 1>>, <<0, 1, 2>>, <<1, 0, 2>>,
              <<0, 0, 1>>, <<-1, 0, 2>>, <<0, -1, 2>>, <<-1, 0, 1>>, <<0, -1, 2>>, <<-1, 0, 2>>>>

\* what the double r exceeds its angle by: -deg/180 * delta + e/5760 * eps
Excess(r) == QSmall(FNorm(-r[1], 0, 180), FNorm(r[2], 0, 5760))

\* np.sin of the double r, its angle a multiple of 30 degrees: the sine of
\* the angle, and where that is 0 the cosine of the angle times the excess
\* (sin(float(pi)) = delta = 1.22e-16)
Sin(r) ==
    LET k == (r[1] \div 30) % 12
    IN  IF ~FIsZero(ExactSin[k + 1]) THEN QConst(ExactSin[k + 1])
        ELSE IF k = 0 THEN Excess(r) ELSE QNeg(Excess(r))

\* np.cos of the double r: the cosine of the angle, and where that is 0 the
\* sine of the angle times the excess, negated (cos(float(pi)/2) = delta/2)
Cos(r) ==
    LET k == (r[1] \div 30) % 12
    IN  IF ~FIsZero(ExactSin[((k + 3) % 12) + 1]) THEN QConst(ExactSin[((k + 3) % 12) + 1])
        ELSE IF k = 3 THEN QNeg(Excess(r)) ELSE Excess(r)

(***************************************************************************)
(* The collaborators of pysar the program calls                            *)
(***************************************************************************)
\* readfile.read_attribute(fname): the attribute dictionary of a file
read_attribute(fname) == disk[fname].atr

\* ut.four_corners(atr): the bounding box of a geocoded file
four_corners(a) ==
    LET w == Float(a.X_FIRST)
        n == Float(a.Y_FIRST)
    IN  <<w, w + Float(a.X_STEP) * IntOf(a.WIDTH),
          n + Float(a.Y_STEP) * IntOf(a.FILE_LENGTH), n>>

\* subset.coord_geo2radar(pair, atr, 'lon' / 'lat'): the pixel indices of two
\* geographic coordinates, each rounded to the nearest integer
coord_geo2radar(pair, a, coordType) ==
    LET first == IF coordType = "lon" THEN Float(a.X_FIRST) ELSE Float(a.Y_FIRST)
        step  == IF coordType = "lon" THEN Float(a.X_STEP) ELSE Float(a.Y_STEP)
    IN  <<Rint(pair[1] - first, step), Rint(pair[2] - first, step)>>

\* Whether the pixel window lies within the raster of the file
InExtent(a, box) ==
    /\ 0 <= box[1] /\ box[1] <= box[3] /\ box[3] <= IntOf(a.WIDTH)
    /\ 0 <= box[2] /\ box[2] <= box[4] /\ box[4] <= IntOf(a.FILE_LENGTH)

\* readfile.read(fname, (x0,y0,x1,y1))[0]: rows y0..y1-1, columns x0..x1-1
read(fname, box) ==
    [r \in 1 .. (box[4] - box[2]) |->
        [c \in 1 .. (box[3] - box[1]) |-> disk[fname].data[box[2] + r][box[1] + c]]]

\* ut.incidence_angle(atr, dimension=0): one incidence angle for the file, degrees
incidence_angle(a) == Float(a.INCIDENCE_ANGLE)

(***************************************************************************)
(* numpy                                                                   *)
(***************************************************************************)
RECURSIVE Flatten(_)
\* V.flatten(): the rows of a 2-D array one after the other
Flatten(V) == IF Len(V) = 0 THEN <<>> ELSE Head(V) \o Flatten(Tail(V))

\* u_los[i,:] = flat succeeds when the sizes agree or flat has one element,
\* which numpy then repeats along the row
CanAssignRow(n, flat) == Len(flat) = n \/ Len(flat) = 1

AssignRow(n, flat) == IF Len(flat) = n THEN flat ELSE [k \in 1 .. n |-> flat[1]]

\* np.reshape(flat, (length, width)) for length, width >= 0
Reshape(flat, len, wid) ==
    [shape |-> <<len, wid>>,
     rows  |-> [r \in 1 .. len |-> SubSeq(flat, (r - 1) * wid + 1, r * wid)]]

Det(M) == QSub(QMul(M[1][1], M[2][2]), QMul(M[1][2], M[2][1]))

SumSq(M) == QAdd(QAdd(QMul(M[1][1], M[1][1]), QMul(M[1][2], M[1][2])),
                 QAdd(QMul(M[2][1], M[2][1]), QMul(M[2][2], M[2][2])))

Adj(M) == << <<M[2][2], QNeg(M[1][2])>>, <<QNeg(M[2][1]), M[1][1]>> >>

Transpose(M) == << <<M[1][1], M[2][1]>>, <<M[1][2], M[2][2]>> >>

\* np.linalg.pinv of a 2x2 matrix keeps the singular values s that are above
\* 1e-15 of the largest, s1.  With s1 s2 = |det| and s1^2 + s2^2 = SumSq the
\* ratio s2/s1 is |det|/SumSq where it is small.  With both kept the result
\* is the inverse, adj/det.  With s1 alone it is v1 u1^T / s1, which is
\* (M^T - det/s1^2 adj) / (s1^2 - s2^2), s1^2 being SumSq there.
Pinv(M) ==
    IF QIsZero(SumSq(M)) THEN << <<QZero, QZero>>, <<QZero, QZero>> >>
    ELSE LET t == QInv(SumSq(M))
             d == Det(M)
             r == QMul(d, t)
             u == QInv(d)
         IN  IF AboveRcond(r)
             THEN [j \in 1 .. 2 |-> [k \in 1 .. 2 |-> QMul(Adj(M)[j][k], u)]]
             ELSE [j \in 1 .. 2 |-> [k \in 1 .. 2 |->
                      QMul(QSub(Transpose(M)[j][k], QMul(r, Adj(M)[j][k])), t)]]

\* np.dot with the entries added where they are to be multiplied
DotRow_added(M, L, k) ==
    [p \in 1 .. Len(L[1]) |->
        QAdd(QAdd(M[k][1], QInt(L[1][p])), QAdd(M[k][2], QInt(L[2][p])))]

\* np.dot(A_inv, u_los): row k of the product of a 2x2 and a 2xn matrix
DotRow(M, L, k) ==
    [p \in 1 .. Len(L[1]) |->
        QAdd(QMul(M[k][1], QInt(L[1][p])), QMul(M[k][2], QInt(L[2][p])))]

(***************************************************************************)
(* asc_desc.py                                                             *)
(***************************************************************************)
\* get_overlap_lalo returning north before south
get_overlap_lalo_swapped(a1, a2) ==
    LET c1 == four_corners(a1)
        c2 == four_corners(a2)
    IN  <<Max2(c1[1], c2[1]), Min2(c1[2], c2[2]), Min2(c1[4], c2[4]), Max2(c1[3], c2[3])>>

\* get_overlap_lalo(atr1, atr2)
get_overlap_lalo(a1, a2) ==
    LET c1 == four_corners(a1)
        c2 == four_corners(a2)
    IN  <<Max2(c1[1], c2[1]), Min2(c1[2], c2[2]), Max2(c1[3], c2[3]), Min2(c1[4], c2[4])>>

\* lines 74-75: if inps.azimuth < 0.: inps.azimuth += 360.
ShiftAzimuth(azimuth) == IF azimuth < 0 THEN azimuth + 360 ELSE azimuth

\* the heading left as read
ShiftHeading_none(heading_angle) == heading_angle

\* lines 117-118: if heading_angle < 0.: heading_angle += 360.
ShiftHeading(heading_angle) ==
    IF heading_angle < 0 THEN heading_angle + 360 ELSE heading_angle

\* line 88: 'X_FIRST' in atr
IsGeocoded(a) == "X_FIRST" \in DOMAIN a

\* line 88 testing the first file only
NotAllGeocoded_first(a1, a2) == ~IsGeocoded(a1)

\* line 88: any('X_FIRST' not in i for i in [atr1,atr2])
NotAllGeocoded(a1, a2) == ~IsGeocoded(a1) \/ ~IsGeocoded(a2)

\* range(len(inps.file)) is exhausted
LoopDone(k) == k >= Len(inps.file)

\* lines 137-138: row of the design matrix for one acquisition
DesignRow(inc, head, az) == <<Cos(inc), QMul(Sin(inc), Sin(RadSub(head, az)))>>

\* the attributes of the outputs with the origin of the first file kept
OutputAttributes_origin_kept(a1) ==
    [a1 EXCEPT !.WIDTH = StrInt(width), !.FILE_LENGTH = StrInt(length),
               !.X_STEP = StrFloat(lon_step), !.Y_STEP = StrFloat(lat_step)]

\* lines 148-154: the attributes of the outputs
OutputAttributes(a1) ==
    [a1 EXCEPT !.WIDTH = StrInt(width), !.FILE_LENGTH = StrInt(length),
               !.X_FIRST = StrFloat(west), !.Y_FIRST = StrFloat(north),
               !.X_STEP = StrFloat(lon_step), !.Y_STEP = StrFloat(lat_step)]

(***************************************************************************)
(* main(), one action per step                                             *)
(***************************************************************************)
\* lines 53-77: cmdLineParse()
CmdLineParse ==
    /\ pc = "cmdLineParse"
    /\ inps' = [file    |-> argv.file,
                azimuth |-> Deg2Rad(ShiftAzimuth(argv.azimuth)),
                outfile |-> argv.outfile]
    /\ pc' = "read_attribute"
    /\ UNCHANGED <<inputVars, atr1, atr2, aoiVars, loopVars, outVars, events>>

\* lines 86-89: read both attribute sets, leave unless both are geocoded
ReadAttributes ==
    /\ pc = "read_attribute"
    /\ atr1' = read_attribute(inps.file[1])
    /\ atr2' = read_attribute(inps.file[2])
    /\ pc' = IF NotAllGeocoded(atr1', atr2') THEN "exit" ELSE "overlap"
    /\ UNCHANGED <<inputVars, inps, aoiVars, loopVars, outVars, events>>

\* lines 91-99: common area and its size in pixels of the first input
CommonArea ==
    /\ pc = "overlap"
    /\ LET aoi == get_overlap_lalo(atr1, atr2)
       IN  /\ west' = aoi[1]
           /\ east' = aoi[2]
           /\ south' = aoi[3]
           /\ north' = aoi[4]
    /\ lon_step' = Float(atr1.X_STEP)
    /\ lat_step' = Float(atr1.Y_STEP)
    /\ width' = PyRound(east' - west', lon_step')
    /\ length' = PyRound(south' - north', lat_step')
    /\ pc' = "alloc"
    /\ UNCHANGED <<inputVars, inps, atr1, atr2, loopVars, outVars, events>>

\* lines 102-104: np.zeros((2, width*length)) raises ValueError on a negative size
Allocate ==
    /\ pc = "alloc"
    /\ IF width * length < 0
       THEN /\ pc' = "raise"
            /\ UNCHANGED u_los
       ELSE /\ pc' = "loop"
            /\ u_los' = [k \in 1 .. 2 |-> [p \in 1 .. width * length |-> 0]]
    /\ i' = 0
    /\ heading' = <<>>
    /\ incidence' = <<>>
    /\ UNCHANGED <<inputVars, inps, atr1, atr2, aoiVars, boxes, outVars, events>>

\* lines 105-126: one pass of the loop over the input files
ReadFile ==
    /\ pc = "loop"
    /\ LET fname == inps.file[i + 1]
           a     == read_attribute(fname)
           xs    == coord_geo2radar(<<west, east>>, a, "lon")
           ys    == coord_geo2radar(<<north, south>>, a, "lat")
           box   == <<xs[1], ys[1], xs[2], ys[2]>>
           flat  == Flatten(read(fname, box))
           h     == Deg2Rad(ShiftHeading(Float(a.HEADING)))
           inc   == Deg2Rad(incidence_angle(a))
       IN  /\ boxes' = Append(boxes, box)
           /\ IF ~InExtent(a, box)
              THEN /\ pc' = "raise"
                   /\ UNCHANGED <<u_los, i, heading, incidence, events>>
              ELSE /\ events' = Append(events, "read")
                   /\ IF ~CanAssignRow(width * length, flat)
                      THEN /\ pc' = "raise"
                           /\ UNCHANGED <<u_los, i, heading, incidence>>
                      ELSE /\ u_los' = [u_los EXCEPT ![i + 1] = AssignRow(width * length, flat)]
                           /\ heading' = Append(heading, h)
                           /\ incidence' = Append(incidence, inc)
                           /\ i' = i + 1
                           /\ pc' = IF LoopDone(i + 1) THEN "design" ELSE "loop"
    /\ UNCHANGED <<inputVars, inps, atr1, atr2, aoiVars, outVars>>

\* lines 135-138: the design matrix
DesignMatrix ==
    /\ pc = "design"
    /\ A' = [k \in 1 .. Len(inps.file) |-> DesignRow(incidence[k], heading[k], inps.azimuth)]
    /\ pc' = "solve"
    /\ UNCHANGED <<inputVars, inps, atr1, atr2, aoiVars, loopVars, A_inv, u_v, u_h,
                   atr, written, events>>

\* lines 140-144: pseudo-inverse, product, reshape (which raises on a negative shape)
Solve ==
    /\ pc = "solve"
    /\ events' = Append(events, "solve")
    /\ A_inv' = Pinv(A)
    /\ IF width < 0 \/ length < 0
       THEN /\ pc' = "raise"
            /\ UNCHANGED <<u_v, u_h>>
       ELSE /\ u_v' = Reshape(DotRow(A_inv', u_los, 1), length, width)
            /\ u_h' = Reshape(DotRow(A_inv', u_los, 2), length, width)
            /\ pc' = "write_v"
    /\ UNCHANGED <<inputVars, inps, atr1, atr2, aoiVars, loopVars, A, atr, written>>

\* the horizontal component written where the vertical one is to be
WriteVertical_horizontal_first ==
    /\ pc = "write_v"
    /\ atr' = OutputAttributes(atr1)
    /\ written' = Append(written, [data |-> u_h, atr |-> atr', outname |-> inps.outfile[2]])
    /\ events' = Append(events, "write_h")
    /\ pc' = "write_h"
    /\ UNCHANGED <<inputVars, inps, atr1, atr2, aoiVars, loopVars, A, A_inv, u_v, u_h>>

\* lines 148-159: output attributes, write of the vertical component
WriteVertical ==
    /\ pc = "write_v"
    /\ atr' = OutputAttributes(atr1)
    /\ written' = Append(written, [data |-> u_v, atr |-> atr', outname |-> inps.outfile[1]])
    /\ events' = Append(events, "write_v")
    /\ pc' = "write_h"
    /\ UNCHANGED <<inputVars, inps, atr1, atr2, aoiVars, loopVars, A, A_inv, u_v, u_h>>

\* lines 161-166: write of the horizontal component
WriteHorizontal ==
    /\ pc = "write_h"
    /\ written' = Append(written, [data |-> u_h, atr |-> atr, outname |-> inps.outfile[2]])
    /\ events' = Append(events, "write_h")
    /\ pc' = "done"
    /\ UNCHANGED <<inputVars, inps, atr1, atr2, aoiVars, loopVars, A, A_inv, u_v, u_h, atr>>

Next ==
    \/ CmdLineParse
    \/ ReadAttributes
    \/ CommonArea
    \/ Allocate
    \/ ReadFile
    \/ DesignMatrix
    \/ Solve
    \/ WriteVertical
    \/ WriteHorizontal

(***************************************************************************)
(* Inputs                                                                  *)
(***************************************************************************)
NoAtr == [FILE_TYPE |-> "none"]

\* a file: its attributes and its raster, LOS value los * (pixel number) at each pixel
MkFile(geocoded, x, y, xs, ys, w, l, h, inc, los) ==
    LET rest == [FILE_TYPE |-> "velocity", Y_FIRST |-> StrFloat(y),
                 X_STEP |-> StrFloat(xs), Y_STEP |-> StrFloat(ys),
                 WIDTH |-> StrInt(w), FILE_LENGTH |-> StrInt(l),
                 HEADING |-> StrFloat(h), INCIDENCE_ANGLE |-> StrFloat(inc)]
    IN  [atr  |-> IF geocoded THEN ("X_FIRST" :> StrFloat(x)) @@ rest ELSE rest,
         data |-> [r \in 1 .. l |-> [c \in 1 .. w |-> los * ((r - 1) * w + c)]]]

FileNames == <<"asc.h5", "desc.h5">>

InitWith(Files1, Files2, Azimuths) ==
    /\ pc = "cmdLineParse"
    /\ \E az \in Azimuths :
          argv = [azimuth |-> az, file |-> FileNames, outfile |-> <<"up.h5", "hz.h5">>]
    /\ \E f1 \in Files1, f2 \in Files2 :
          disk = (FileNames[1] :> f1) @@ (FileNames[2] :> f2)
    /\ inps = [file |-> <<>>, azimuth |-> <<0, 0>>, outfile |-> <<>>]
    /\ atr1 = NoAtr
    /\ atr2 = NoAtr
    /\ west = 0 /\ east = 0 /\ south = 0 /\ north = 0
    /\ lon_step = 0 /\ lat_step = 0
    /\ width = 0 /\ length = 0
    /\ u_los = <<>>
    /\ i = 0
    /\ boxes = <<>>
    /\ heading = <<>>
    /\ incidence = <<>>
    /\ A = <<>>
    /\ A_inv = <<>>
    /\ u_v = [shape |-> <<0, 0>>, rows |-> <<>>]
    /\ u_h = [shape |-> <<0, 0>>, rows |-> <<>>]
    /\ atr = NoAtr
    /\ written = <<>>
    /\ events = <<>>

XSteps == {2, 3}

YSteps == {-2, -3}

YOrigins == {0, -3}

Lengths == {1, 2}

\* files of every placement and size, with one viewing geometry and one raster each
PlacedFiles(h, inc, los) ==
    {MkFile(TRUE, x, y, xs, ys, w, l, h, inc, los) :
        x \in 0 .. MaxShift, y \in YOrigins, xs \in XSteps, ys \in YSteps,
        w \in 1 .. MaxDim, l \in Lengths}
    \cup {MkFile(FALSE, 0, 0, 2, -2, w, 1, h, inc, los) : w \in 1 .. MaxDim}

Init == InitWith(PlacedFiles(-150, 30, 1), PlacedFiles(-30, 30, -2), {90})

Spec == Init /\ [][Next]_vars

Headings == {-450, -360, -150, -30, 0, 90, 360}

Incidences == {0, 30, 60, 90}

Azimuths == {-450, -150, 0, 30, 90, 390}

\* the headings of the second file
DescHeadings == {-150, 0, 90, 360}

\* files of one size at the origin x, with every viewing geometry, the raster
\* 0 and a raster # 0
ViewedFiles(x, hs, los) ==
    {MkFile(TRUE, x, 0, 2, -2, MaxDim, MaxDim, h, inc, l) :
        h \in hs, inc \in Incidences, l \in {0, los}}

InitAngles == InitWith(ViewedFiles(0, Headings, 1), ViewedFiles(2, DescHeadings, -2), Azimuths)

SpecAngles == InitAngles /\ [][Next]_vars

(***************************************************************************)
(* Properties                                                              *)
(***************************************************************************)
File1 == disk[FileNames[1]]

File2 == disk[FileNames[2]]

\* the common area has been computed
AreaKnown == pc \notin {"cmdLineParse", "read_attribute", "overlap", "exit"}

\* C1: once the common area is computed, west is the larger of the two west
\* edges, east the smaller of the two east edges, south the larger of the two
\* south edges and north the smaller of the two north edges, and both attribute
\* dictionaries still are what the files hold.
C1_Overlap ==
    AreaKnown =>
        LET b1 == four_corners(File1.atr)
            b2 == four_corners(File2.atr)
        IN  /\ west \in {b1[1], b2[1]} /\ west >= b1[1] /\ west >= b2[1]
            /\ east \in {b1[2], b2[2]} /\ east <= b1[2] /\ east <= b2[2]
            /\ south \in {b1[3], b2[3]} /\ south >= b1[3] /\ south >= b2[3]
            /\ north \in {b1[4], b2[4]} /\ north <= b1[4] /\ north <= b2[4]
            /\ atr1 = File1.atr
            /\ atr2 = File2.atr

\* C1 witness: the area is computed from two boxes that differ on every edge,
\* west and south coming from the second file, east and north from the first.
C1_Witness ==
    /\ pc = "alloc"
    /\ LET b1 == four_corners(atr1)
           b2 == four_corners(atr2)
       IN  /\ b1[1] < b2[1] /\ b1[2] < b2[2] /\ b1[3] < b2[3] /\ b1[4] < b2[4]
           /\ <<west, east, south, north>> = <<b2[1], b1[2], b2[3], b1[4]>>

Degenerate == west >= east \/ south >= north

\* C2: when the common area is degenerate the run stops in an error without
\* having read a raster window, solved or written anything.
C2_DegenerateAborts ==
    (AreaKnown /\ Degenerate) =>
        /\ events = <<>>
        /\ written = <<>>
        /\ pc \notin {"design", "solve", "write_v", "write_h", "done"}

\* C3: when one of the two files has no X_FIRST the run exits before the common
\* area is computed, before any window is read, before the solve and any write.
C3_NotGeocodedExits ==
    (pc # "cmdLineParse" /\ pc # "read_attribute"
        /\ (~IsGeocoded(File1.atr) \/ ~IsGeocoded(File2.atr))) =>
        /\ pc = "exit"
        /\ <<west, east, south, north, width, length>> = <<0, 0, 0, 0, 0, 0>>
        /\ u_los = <<>> /\ boxes = <<>> /\ A = <<>>
        /\ events = <<>>
        /\ written = <<>>

\* C3 witness: the run has exited with only the second file not geocoded.
C3_Witness == pc = "exit" /\ IsGeocoded(File1.atr) /\ ~IsGeocoded(File2.atr)

StepsDiffer ==
    \/ Float(File1.atr.X_STEP) # Float(File2.atr.X_STEP)
    \/ Float(File1.atr.Y_STEP) # Float(File2.atr.Y_STEP)

\* C4: when the pixel steps of the two files differ the run stops in an error
\* before any array is built: no LOS stack, no read, no solve, no write.
C4_StepMismatchAborts ==
    (pc # "cmdLineParse" /\ pc # "read_attribute" /\ pc # "exit" /\ StepsDiffer) =>
        /\ u_los = <<>>
        /\ events = <<>>
        /\ written = <<>>
        /\ pc \notin {"loop", "design", "solve", "write_v", "write_h", "done"}

\* C5: every pixel window handed to the reader is width pixels wide and length
\* pixels high.
C5_WindowSize ==
    \A k \in 1 .. Len(boxes) :
        /\ boxes[k][3] - boxes[k][1] = width
        /\ boxes[k][4] - boxes[k][2] = length

\* a radian value in [0, 2 pi), that is an angle in [0, 360) degrees
InTurn(r) == 0 <= r[1] /\ r[1] < 360

\* the heading attribute of the k-th input file, degrees
HeadingOf(k) == Float(disk[FileNames[k]].atr.HEADING)

\* C6 as claimed: the azimuth and every heading that enter the design matrix
\* lie in [0, 360) degrees, whatever the inputs are.
C6_AnglesInTurn ==
    /\ pc # "cmdLineParse" => InTurn(inps.azimuth)
    /\ \A k \in 1 .. Len(heading) : InTurn(heading[k])

\* a whole number of degrees in [-360, 360)
InShiftRange(deg) == -360 <= deg /\ deg < 360

\* C6 amended: a negative azimuth enters the design matrix as the azimuth
\* given plus 360 degrees and any other azimuth as given; a negative heading
\* enters it as the heading read plus 360 degrees and any other heading as
\* read; so a heading equal to the azimuth given enters as the same angle, and
\* an angle of a whole number of degrees in [-360, 360) enters in [0, 360).
C6_ShiftedOnce ==
    /\ pc # "cmdLineParse" =>
          /\ argv.azimuth < 0 => inps.azimuth = Deg2Rad(argv.azimuth + 360)
          /\ argv.azimuth >= 0 => inps.azimuth = Deg2Rad(argv.azimuth)
          /\ InShiftRange(argv.azimuth) => InTurn(inps.azimuth)
    /\ \A k \in 1 .. Len(heading) :
          /\ HeadingOf(k) < 0 => heading[k] = Deg2Rad(HeadingOf(k) + 360)
          /\ HeadingOf(k) >= 0 => heading[k] = Deg2Rad(HeadingOf(k))
          /\ InShiftRange(HeadingOf(k)) => InTurn(heading[k])
          /\ HeadingOf(k) = argv.azimuth => heading[k] = inps.azimuth

\* C6 witness: a negative azimuth in [-360, 0), a negative heading of the same
\* value and a negative heading of another value have been shifted and are
\* about to enter the design matrix.
C6_Witness ==
    /\ pc = "design"
    /\ argv.azimuth < 0 /\ InShiftRange(argv.azimuth)
    /\ HeadingOf(1) < 0 /\ InShiftRange(HeadingOf(1)) /\ HeadingOf(1) # argv.azimuth
    /\ HeadingOf(2) = argv.azimuth
    /\ inps.azimuth = Deg2Rad(argv.azimuth + 360)
    /\ heading[1] = Deg2Rad(HeadingOf(1) + 360)
    /\ heading[2] = inps.azimuth

Solved == pc \in {"write_v", "write_h", "done"}

\* LOS value of acquisition k at row r, column c of the common area
LosAt(k, r, c) == u_los[k][(r - 1) * width + c]

\* C7: with a design matrix of determinant # 0, row k of the matrix is
\* [cos(inc_k), sin(inc_k) sin(head_k - az)] and at every pixel
\* cos(inc_k) V - sin(head_k - az) sin(inc_k) H = L_k for both acquisitions.
C7_MinusEquation ==
    (Solved /\ ~QIsZero(Det(A))) =>
        \A k \in 1 .. 2 :
            /\ A[k] = <<Cos(incidence[k]),
                        QMul(Sin(RadSub(heading[k], inps.azimuth)), Sin(incidence[k]))>>
            /\ \A r \in 1 .. length : \A c \in 1 .. width :
                  QSub(QMul(A[k][1], u_v.rows[r][c]), QMul(A[k][2], u_h.rows[r][c]))
                      = QInt(LosAt(k, r, c))

OutKeys == {"WIDTH", "FILE_LENGTH", "X_FIRST", "Y_FIRST", "X_STEP", "Y_STEP"}

\* C8: every call of the writer gets the same attributes: origin (west, north),
\* WIDTH and FILE_LENGTH the size of the common area, the steps of the first
\* file, every other attribute as in the first file; the grid written has
\* length rows of width values; the vertical grid goes to the first output
\* name and the horizontal one to the second; atr1 is what the first file holds.
C8_OutputMetadata ==
    /\ \A k \in 1 .. Len(written) :
          LET w == written[k]
          IN  /\ w.atr = written[1].atr
              /\ DOMAIN w.atr = DOMAIN File1.atr
              /\ Float(w.atr.X_FIRST) = west
              /\ Float(w.atr.Y_FIRST) = north
              /\ IntOf(w.atr.WIDTH) = width
              /\ IntOf(w.atr.FILE_LENGTH) = length
              /\ Float(w.atr.X_STEP) = Float(File1.atr.X_STEP)
              /\ Float(w.atr.Y_STEP) = Float(File1.atr.Y_STEP)
              /\ \A key \in DOMAIN File1.atr \ OutKeys : w.atr[key] = File1.atr[key]
              /\ w.data.shape = <<length, width>>
              /\ Len(w.data.rows) = length
              /\ \A r \in 1 .. length : Len(w.data.rows[r]) = width
              /\ w.outname = argv.outfile[k]
              /\ w.data = IF k = 1 THEN u_v ELSE u_h
    /\ Len(written) > 0 => atr1 = File1.atr

\* C8 witness: both outputs are written for a common area that has neither the
\* origin nor the size of the first file.
C8_Witness ==
    /\ pc = "done"
    /\ Len(written) = 2
    /\ west # Float(File1.atr.X_FIRST)
    /\ north # Float(File1.atr.Y_FIRST)
    /\ width # IntOf(File1.atr.WIDTH)
    /\ width * length > 0

AllZero(file) ==
    \A r \in 1 .. Len(file.data) : \A c \in 1 .. Len(file.data[r]) : file.data[r][c] = 0

GridZero(g) ==
    /\ g.shape = <<length, width>>
    /\ Len(g.rows) = length
    /\ \A r \in 1 .. length :
          /\ Len(g.rows[r]) = width
          /\ \A c \in 1 .. width : g.rows[r][c] = QZero

\* C9: when both rasters are 0 everywhere, both output grids have the shape
\* (length, width) and are 0 everywhere, whatever the angles are.
C9_ZeroLosZeroOutput ==
    (Solved /\ AllZero(File1) /\ AllZero(File2)) =>
        /\ GridZero(u_v)
        /\ GridZero(u_h)
        /\ \A k \in 1 .. Len(written) : GridZero(written[k].data)

\* C9 witness: a run over two zero rasters has finished with a singular design
\* matrix that is not 0, on a common area of at least one pixel.
C9_Witness ==
    /\ pc = "done"
    /\ AllZero(File1) /\ AllZero(File2)
    /\ QIsZero(Det(A)) /\ ~QIsZero(SumSq(A))
    /\ width * length > 0

\* C10: the steps performed so far are the first of: read, read, solve, write
\* of the vertical grid, write of the horizontal grid; and the solve step is
\* entered with both windows read.
C10_Order ==
    /\ events = SubSeq(<<"read", "read", "solve", "write_v", "write_h">>, 1, Len(events))
    /\ pc \in {"design", "solve"} => (events = <<"read", "read">> /\ Len(u_los[2]) = width * length)

\* C10 witness: a run has finished having done all five steps.
C10_Witness == pc = "done" /\ Len(events) = 5 /\ Len(written) = 2

====
